---------------------------- MODULE Spec2Model ----------------------------
(***************************************************************************)
(* Model of src/assets/js/router.js: the client-side clean-URL router.     *)
(* JavaScript strings are modelled as sequences of one-character strings,  *)
(* so that the string operations of the router (startsWith, includes,      *)
(* slice, split, replace, URL parsing) are computed, not assumed.          *)
(***************************************************************************)
EXTENDS Integers, Sequences, FiniteSets, TLC

(***************************************************************************)
(* JavaScript String operations                                            *)
(***************************************************************************)

\* s.startsWith(p)
StartsWith(s, p) == Len(p) <= Len(s) /\ SubSeq(s, 1, Len(p)) = p

\* s.indexOf(p), 1-based; 0 when p does not occur in s
IndexOf(s, p) ==
    LET hits == {i \in 1..(Len(s) + 1) :
                    i + Len(p) - 1 <= Len(s) /\ SubSeq(s, i, i + Len(p) - 1) = p}
    IN  IF hits = {} THEN 0 ELSE CHOOSE i \in hits : \A j \in hits : i <= j

\* s.includes(p)
Includes(s, p) == IndexOf(s, p) # 0

\* s.slice(1)
Slice1(s) == SubSeq(s, 2, Len(s))

\* s.replace(p, r) with a string pattern: only the first occurrence is replaced
Replace(s, p, r) ==
    LET i == IndexOf(s, p)
    IN  IF i = 0 THEN s
        ELSE SubSeq(s, 1, i - 1) \o r \o SubSeq(s, i + Len(p), Len(s))

\* s.split(/[?#]/)[0]: the part of s before its first '?' or '#'
SplitQueryFragment0(s) ==
    LET cuts == {i \in 1..Len(s) : s[i] \in {"?", "#"}}
    IN  IF cuts = {} THEN s
        ELSE SubSeq(s, 1, (CHOOSE i \in cuts : \A j \in cuts : i <= j) - 1)

HtmlExt == <<".", "h", "t", "m", "l">>
IndexHtml == <<"i", "n", "d", "e", "x">> \o HtmlExt

\* pathToHtmlFile without the 'cleanPath === "/"' case of its root check
pathToHtmlFile_NoSlashRoot(path) ==
    LET cleanPath == IF StartsWith(path, <<"/">>) THEN Slice1(path) ELSE path
    IN  IF cleanPath = <<>>
        THEN IndexHtml
        ELSE SplitQueryFragment0(cleanPath) \o HtmlExt

(***************************************************************************)
(* Router.pathToHtmlFile (router.js 151-164)                               *)
(***************************************************************************)
pathToHtmlFile(path) ==
    LET cleanPath == IF StartsWith(path, <<"/">>) THEN Slice1(path) ELSE path
    IN  IF cleanPath = <<>> \/ cleanPath = <<"/">>
        THEN IndexHtml
        ELSE SplitQueryFragment0(cleanPath) \o HtmlExt


(***************************************************************************)
(* Optional values (null / absent element or attribute)                    *)
(***************************************************************************)
Null(dflt) == [has |-> FALSE, val |-> dflt]
Some(v) == [has |-> TRUE, val |-> v]

(***************************************************************************)
(* URL parsing: new URL(url) and the resolution of an anchor's href        *)
(* against the document's URL, for the URL shapes the router meets         *)
(* (no dot segments, no percent-encoding, no credentials or ports).        *)
(***************************************************************************)
SchemeChars ==
    {"a", "b", "c", "d", "e", "f", "g", "h", "i", "j", "k", "l", "m",
     "n", "o", "p", "q", "r", "s", "t", "u", "v", "w", "x", "y", "z"}

Http == <<"h", "t", "t", "p">>
Https == <<"h", "t", "t", "p", "s">>

\* the first index i >= from with s[i] \in cs, or Len(s) + 1
FirstOf(s, cs, from) ==
    LET hits == {i \in from..Len(s) : s[i] \in cs}
    IN  IF hits = {} THEN Len(s) + 1 ELSE CHOOSE i \in hits : \A j \in hits : i <= j

\* the index of the ':' ending a scheme, or 0 when url starts with no scheme
SchemeEnd(url) ==
    LET c == FirstOf(url, {":"}, 1)
    IN  IF c > 1 /\ c <= Len(url) /\ \A i \in 1..(c - 1) : url[i] \in SchemeChars
        THEN c ELSE 0

FailedUrl == [ok |-> FALSE, scheme |-> <<>>, host |-> <<>>, pathname |-> <<>>, tail |-> <<>>]

\* the first index i with s[i] # "/", or Len(s) + 1
FirstNonSlash(s) ==
    LET hits == {i \in 1..Len(s) : s[i] # "/"}
    IN  IF hits = {} THEN Len(s) + 1 ELSE CHOOSE i \in hits : \A j \in hits : i <= j

\* an http(s) URL whose host is rest[h0..h1-1] and whose path is rest[h1..p1-1]
ParseSpecial(scheme, rest, h0, h1, p1) ==
    IF h0 = h1 THEN FailedUrl
    ELSE [ok |-> TRUE, scheme |-> scheme, host |-> SubSeq(rest, h0, h1 - 1),
          pathname |-> IF h1 = p1 THEN <<"/">> ELSE SubSeq(rest, h1, p1 - 1),
          tail |-> SubSeq(rest, p1, Len(rest))]

ParseHost(scheme, rest, h0, h1) ==
    ParseSpecial(scheme, rest, h0, h1, FirstOf(rest, {"?", "#"}, h1))

\* a special scheme skips the slashes that follow it
ParseAuthority(scheme, rest, h0) ==
    ParseHost(scheme, rest, h0, FirstOf(rest, {"/", "?", "#"}, h0))

\* a URL of another scheme (mailto:, tel:): an opaque path, no host
ParseOpaque(scheme, rest, p1) ==
    [ok |-> TRUE, scheme |-> scheme, host |-> <<>>,
     pathname |-> SubSeq(rest, 1, p1 - 1), tail |-> SubSeq(rest, p1, Len(rest))]

ParseRest(scheme, rest) ==
    IF scheme \in {Http, Https}
    THEN ParseAuthority(scheme, rest, FirstNonSlash(rest))
    ELSE ParseOpaque(scheme, rest, FirstOf(rest, {"?", "#"}, 1))

ParseFrom(url, c) ==
    IF c = 0 THEN FailedUrl
    ELSE ParseRest(SubSeq(url, 1, c - 1), SubSeq(url, c + 1, Len(url)))

\* new URL(url): ok is FALSE where the constructor throws
ParseUrl(url) == ParseFrom(url, SchemeEnd(url))

\* URL.origin of a parsed URL ("null" for a scheme without an origin)
UrlOrigin(u) ==
    IF u.ok /\ u.scheme \in {Http, Https}
    THEN u.scheme \o <<":", "/", "/">> \o u.host
    ELSE <<"n", "u", "l", "l">>

\* URL.href of a parsed URL
UrlHref(u) ==
    IF u.scheme \in {Http, Https}
    THEN u.scheme \o <<":", "/", "/">> \o u.host \o u.pathname \o u.tail
    ELSE u.scheme \o <<":">> \o u.pathname \o u.tail

\* the directory of a path: everything up to and including its last '/'
DirOf(path) ==
    LET sl == {i \in 1..Len(path) : path[i] = "/"}
    IN  IF sl = {} THEN <<"/">>
        ELSE SubSeq(path, 1, CHOOSE i \in sl : \A j \in sl : j <= i)

\* the absolute URL text an href stands for in a document whose URL is b
AbsoluteOf(href, b) ==
    IF SchemeEnd(href) # 0 THEN href
    ELSE IF StartsWith(href, <<"/", "/">>) THEN b.scheme \o <<":">> \o href
    ELSE IF StartsWith(href, <<"/">>) THEN UrlOrigin(b) \o href
    ELSE IF href = <<>> THEN UrlOrigin(b) \o b.pathname \o b.tail
    ELSE IF href[1] = "?" THEN UrlOrigin(b) \o b.pathname \o href
    ELSE IF href[1] = "#"
         THEN UrlOrigin(b) \o b.pathname
                \o SubSeq(b.tail, 1, FirstOf(b.tail, {"#"}, 1) - 1) \o href
    ELSE UrlOrigin(b) \o DirOf(b.pathname) \o href

HrefOr(u, text) == IF u.ok THEN UrlHref(u) ELSE text

\* HTMLAnchorElement.href: the href attribute resolved against the document's
\* URL; the attribute's own text when it cannot be parsed
AnchorHref(href, docUrl) ==
    HrefOr(ParseUrl(AbsoluteOf(href, ParseUrl(docUrl))), href)

PathnameOr(urlObj, url) == IF urlObj.ok THEN urlObj.pathname ELSE url

(***************************************************************************)
(* Router.getPathFromUrl (router.js 264-271)                               *)
(***************************************************************************)
getPathFromUrl(url) == PathnameOr(ParseUrl(url), url)

(***************************************************************************)
(* The site: the origin, the clean paths, the titles and the static files  *)
(***************************************************************************)
\* window.location.origin, which is also ROUTER_CONFIG.baseUrl
Origin == <<"h", "t", "t", "p", "s", ":", "/", "/", "s">>
baseUrl == Origin
OtherOrigin == <<"h", "t", "t", "p", "s", ":", "/", "/", "o">>

RootPath == <<"/">>
DonatePath == <<"/", "d", "o", "n", "a", "t", "e">>
MissionPath == <<"/", "m", "i", "s", "s", "i", "o", "n">>
GetInvolvedPath == <<"/", "g", "e", "t", "-", "i", "n", "v", "o", "l", "v", "e", "d">>

RootTitle == "GIFT Canada - Registered Canadian Charity | Toronto Non-Profit Organization"
DonateTitle == "Donate to GIFT Canada - Support Humanitarian Aid & Medical Missions"
MissionTitle == "GIFT Canada - GIFT Vision & Mission"
GetInvolvedTitle == "GIFT Canada - Get Involved"
DefaultTitle == "GIFT Canada"

(***************************************************************************)
(* Router.getExpectedTitle (router.js 286-296)                             *)
(***************************************************************************)
getExpectedTitle(path) ==
    CASE path = RootPath -> RootTitle
      [] path = DonatePath -> DonateTitle
      [] path = MissionPath -> MissionTitle
      [] path = GetInvolvedPath -> GetInvolvedTitle
      [] OTHER -> DefaultTitle

\* A fetched or served HTML document: its text (raw) and what a DOM parse of
\* it finds: the content container's inner markup, the <title> text, the
\* canonical link's href and the og:url meta's content.
NoStr == Null("")
NoUrl == Null(<<>>)

IndexDoc ==
    [raw |-> "<html>index</html>", container |-> Some("home"),
     title |-> Some(RootTitle),
     canonical |-> Some(Origin \o <<"/">> \o IndexHtml),
     og |-> Some(Origin \o <<"/">>)]

DonateDoc ==
    [raw |-> "<html>donate</html>", container |-> Some("donate"),
     title |-> Some(DonateTitle),
     canonical |-> Some(Origin \o DonatePath \o HtmlExt),
     og |-> Some(Origin \o DonatePath \o HtmlExt)]

\* a degraded page: no content container, no <title>, no canonical link, and
\* an og:url in which '.html' occurs twice
MissionDoc ==
    [raw |-> "<html>mission</html>", container |-> NoStr,
     title |-> NoStr,
     canonical |-> NoUrl,
     og |-> Some(Origin \o MissionPath \o HtmlExt \o <<"#">> \o HtmlExt)]

\* what the host serves for a clean URL it has no file for
NotFoundDoc ==
    [raw |-> "<html>404</html>", container |-> NoStr,
     title |-> Some("Page not found"),
     canonical |-> NoUrl,
     og |-> NoUrl]

\* the static file a relative URL names, if the site has it
Server(file) ==
    CASE file = IndexHtml -> Some(IndexDoc)
      [] file = Slice1(DonatePath) \o HtmlExt -> Some(DonateDoc)
      [] file = Slice1(MissionPath) \o HtmlExt -> Some(MissionDoc)
      [] OTHER -> Null(NotFoundDoc)


\* extractContent returning the fetched HTML without selecting the container
extractContent_WholeDocument(html) == html.raw

(***************************************************************************)
(* Router.extractContent (router.js 171-177)                               *)
(***************************************************************************)
extractContent(html) ==
    LET content == html.container
    IN  IF content.has THEN content.val ELSE html.raw

(***************************************************************************)
(* Router.extractTitle (router.js 184-190): the <title> text, or null      *)
(***************************************************************************)
extractTitle(html) ==
    LET titleElement == html.title
    IN  IF titleElement.has THEN Some(titleElement.val) ELSE NoStr

(***************************************************************************)
(* Router.updateMetaTags (router.js 196-217): the live canonical href and  *)
(* the live og:url content after the call; an absent live element stays    *)
(* absent.                                                                 *)
(***************************************************************************)
updateCanonical(html, currentCanonical) ==
    IF html.canonical.has /\ currentCanonical.has
    THEN Some(Replace(html.canonical.val, HtmlExt, <<>>))
    ELSE currentCanonical

\* the og:url update without the check that the live element exists
updateOgUrl_NoLiveCheck(html, currentOgUrl) ==
    IF html.og.has
    THEN Some(Replace(html.og.val, HtmlExt, <<>>))
    ELSE currentOgUrl

updateOgUrl(html, currentOgUrl) ==
    IF html.og.has /\ currentOgUrl.has
    THEN Some(Replace(html.og.val, HtmlExt, <<>>))
    ELSE currentOgUrl

(***************************************************************************)
(* Router.isInternalLink (router.js 246-257). A link is a record of its    *)
(* href and target attributes, each possibly absent.                       *)
(***************************************************************************)
Mailto == <<"m", "a", "i", "l", "t", "o", ":">>
Tel == <<"t", "e", "l", ":">>

isInternalLink(link) ==
    LET href == link.href IN
    IF ~href.has \/ href.val = <<>> THEN FALSE
    ELSE IF StartsWith(href.val, Http) /\ ~Includes(href.val, Origin) THEN FALSE
    ELSE IF StartsWith(href.val, <<"#">>) THEN FALSE
    ELSE IF StartsWith(href.val, Mailto) \/ StartsWith(href.val, Tel) THEN FALSE
    ELSE IF link.target.has /\ link.target.val = "_blank" THEN FALSE
    ELSE TRUE

(***************************************************************************)
(* Router.reinitializeScripts (router.js 222-239): whether the call throws *)
(* in a page whose globals are ui. ui.jq: whether $ is defined;            *)
(* ui.scrolly, ui.dropotron: whether $.fn has the plugin; ui.browser:      *)
(* whether the global 'browser' read at line 236 is defined.               *)
\* reinitializeScripts throwing when the UI library is absent
reinitializeScriptsThrows_AbsentLibrary(env) ==
    ~env.jq \/ (env.dropotron /\ ~env.browser)

(***************************************************************************)
reinitializeScriptsThrows(env) ==
    env.jq /\ env.dropotron /\ ~env.browser


(***************************************************************************)
(* Bounds and inputs                                                       *)
(***************************************************************************)
\* loadContent calls started in one document's lifetime
MaxCalls == 2

\* href attributes of the anchors a user may click
HrefSamples ==
    { DonatePath,                                      \* /donate
      MissionPath,                                     \* /mission
      RootPath,                                        \* /
      DonatePath \o <<"?", "r", "#", "t">>,            \* /donate?r#t
      Slice1(DonatePath) \o HtmlExt,                   \* donate.html
      Origin \o MissionPath,                           \* https://s/mission
      <<"#", "s">>,                                    \* #s
      Mailto \o <<"a">>,                               \* mailto:a
      Tel \o <<"1">>,                                  \* tel:1
      OtherOrigin \o <<"/", "x">>,                     \* https://o/x
      OtherOrigin \o <<"/", "?">> \o Origin,           \* https://o/?https://s
      <<"/", "/", "o">> \o DonatePath,                 \* //o/donate
      <<>> }                                           \* href=""

\* the anchors: each href without a target, an anchor without href, and two
\* internal hrefs with a target
Anchors ==
    {[href |-> Some(h), target |-> NoStr] : h \in HrefSamples}
      \cup {[href |-> NoUrl, target |-> NoStr],
            [href |-> Some(DonatePath), target |-> Some("_blank")],
            [href |-> Some(MissionPath), target |-> Some("_self")]}

NoAnchor == [href |-> NoUrl, target |-> NoStr]

\* the pages a visit may start on: the URL path and the document served
InitPages ==
    { [path |-> RootPath, doc |-> IndexDoc],
      [path |-> DonatePath, doc |-> DonateDoc],
      [path |-> MissionPath, doc |-> NotFoundDoc] }

\* the globals of the page that reinitializeScripts reads
UiEnvs ==
    { [jq |-> FALSE, scrolly |-> FALSE, dropotron |-> FALSE, browser |-> FALSE],
      [jq |-> TRUE, scrolly |-> TRUE, dropotron |-> TRUE, browser |-> TRUE],
      [jq |-> TRUE, scrolly |-> FALSE, dropotron |-> TRUE, browser |-> FALSE] }

(***************************************************************************)
(* State                                                                   *)
(***************************************************************************)
VARIABLES
    currentPath,     \* Router.currentPath
    isInitialized,   \* Router.isInitialized
    clickListeners,  \* click listeners this router has bound on document
    popListeners,    \* popstate listeners this router has bound on window
    loads,           \* loadContent calls suspended at an await
    nCalls,          \* loadContent calls started so far
    loading,         \* document.body has class ROUTER_CONFIG.loadingClass
    content,         \* inner markup of the live content container, if any
    title,           \* document.title
    canonical,       \* href of the live canonical link, if any
    ogUrl,           \* content of the live og:url meta, if any
    scrollY,         \* window.scrollY: 0 at the top of the page, 1 below it
    hist,            \* session history entries of this document
    hIdx,            \* index of the current session history entry
    locationHref,    \* the last value assigned to window.location.href
    alive,           \* the document has not been unloaded
    ui,              \* the page's globals read by reinitializeScripts
    ev,              \* the last event handled and what its handler did
    arg,             \* pathToHtmlFile check: the argument
    out              \* pathToHtmlFile check: the result

routerVars == <<currentPath, isInitialized, clickListeners, popListeners>>
loadVars == <<loads, nCalls, loading>>
docVars == <<content, title, canonical, ogUrl, scrollY>>
histVars == <<hist, hIdx>>
pureVars == <<arg, out>>
vars == <<currentPath, isInitialized, clickListeners, popListeners, loads,
          nCalls, loading, content, title, canonical, ogUrl, scrollY, hist,
          hIdx, locationHref, alive, ui, ev, arg, out>>

\* the document's URL (the address bar)
DocUrl == hist[hIdx].url

(***************************************************************************)
(* Router.getCurrentPath (router.js 277-279)                               *)
(***************************************************************************)
getCurrentPath == ParseUrl(DocUrl).pathname

Event(op, path, flag) == [op |-> op, path |-> path, flag |-> flag, origin |-> <<>>]

\* a click: whether default was prevented and, if it was, the path passed to
\* navigate and the origin of the URL the clicked anchor's href resolves to
ClickEvent(path, prevented, origin) ==
    [op |-> "click", path |-> path, flag |-> prevented, origin |-> origin]

(***************************************************************************)
(* Init: a page has been served, the user has scrolled down in it, and the *)
(* Router constructor has run its first two lines (router.js 21-22);       *)
(* line 23 calls init().                                                   *)
(***************************************************************************)
Init ==
    \E page \in InitPages, env \in UiEnvs :
        /\ hist = <<[state |-> NoUrl, url |-> Origin \o page.path]>>
        /\ hIdx = 1
        /\ currentPath = page.path
        /\ isInitialized = FALSE
        /\ clickListeners = 0
        /\ popListeners = 0
        /\ loads = {}
        /\ nCalls = 0
        /\ loading = FALSE
        /\ content = page.doc.container
        /\ title = IF page.doc.title.has THEN page.doc.title.val ELSE ""
        /\ canonical = page.doc.canonical
        /\ ogUrl = page.doc.og
        /\ scrollY = 1
        /\ locationHref = NoUrl
        /\ alive = TRUE
        /\ ui = env
        /\ ev = Event("construct", page.path, FALSE)
        /\ arg = <<>>
        /\ out = <<>>


(***************************************************************************)
(* Router.loadContent (router.js 94-144), up to its first await: the       *)
(* mapped file is computed, the loading class is added and one fetch is    *)
(* issued.                                                                 *)
(***************************************************************************)
NewCall(path, updateHistory) ==
    [id |-> nCalls + 1, path |-> path, updateHistory |-> updateHistory,
     htmlFile |-> pathToHtmlFile(path), at |-> "fetch", fetches |-> 1]

\* loadContent aborting the calls already in flight
loadContent_Cancels(path, updateHistory) ==
    /\ nCalls < MaxCalls
    /\ loads' = {NewCall(path, updateHistory)}
    /\ nCalls' = nCalls + 1
    /\ loading' = TRUE

loadContent(path, updateHistory) ==
    /\ nCalls < MaxCalls
    /\ loads' = loads \cup {NewCall(path, updateHistory)}
    /\ nCalls' = nCalls + 1
    /\ loading' = TRUE

\* navigate without its early return on the current path
navigate_NoEarlyReturn(path) ==
    /\ currentPath' = path
    /\ loadContent(path, TRUE)

(***************************************************************************)
(* Router.navigate (router.js 82-87)                                       *)
(***************************************************************************)
navigate(path) ==
    IF path = currentPath
    THEN UNCHANGED <<currentPath, loadVars>>
    ELSE /\ currentPath' = path
         /\ loadContent(path, TRUE)

\* the conditions of handleInitialLoad without the '.html' test
NeedsInitialLoad_NoHtmlTest(path) ==
    /\ path # RootPath
    /\ ~Includes(path, <<"#">>)
    /\ title # getExpectedTitle(path)

(***************************************************************************)
(* Router.handleInitialLoad (router.js 62-76)                              *)
(***************************************************************************)
NeedsInitialLoad(path) ==
    /\ path # RootPath
    /\ ~Includes(path, HtmlExt)
    /\ ~Includes(path, <<"#">>)
    /\ title # getExpectedTitle(path)

handleInitialLoad ==
    LET path == getCurrentPath IN
    IF NeedsInitialLoad(path)
    THEN loadContent(path, FALSE)
    ELSE UNCHANGED loadVars

\* init without its guard on the initialization flag
InitCall_NoGuard ==
    /\ alive
    /\ clickListeners' = clickListeners + 1
    /\ popListeners' = popListeners + 1
    /\ handleInitialLoad
    /\ isInitialized' = TRUE
    /\ UNCHANGED currentPath
    /\ ev' = Event("init", getCurrentPath, TRUE)
    /\ UNCHANGED <<docVars, histVars, locationHref, alive, ui, pureVars>>

(***************************************************************************)
(* Router.init (router.js 29-35), with bindEvents (40-57): called by the   *)
(* constructor, and callable again on window.siteRouter.                   *)
(***************************************************************************)
InitCall ==
    /\ alive
    /\ IF isInitialized
       THEN /\ UNCHANGED <<routerVars, loadVars>>
            /\ ev' = Event("init", getCurrentPath, FALSE)
       ELSE /\ clickListeners' = clickListeners + 1
            /\ popListeners' = popListeners + 1
            /\ handleInitialLoad
            /\ isInitialized' = TRUE
            /\ UNCHANGED currentPath
            /\ ev' = Event("init", getCurrentPath, TRUE)
    /\ UNCHANGED <<docVars, histVars, locationHref, alive, ui, pureVars>>

(***************************************************************************)
(* The click listener (router.js 42-49). link is e.target.closest('a'):    *)
(* absent when the click is not inside an anchor. ev.flag records          *)
(* e.preventDefault().                                                     *)
(***************************************************************************)
Intercepts(link) == link.has /\ isInternalLink(link.val)

\* this.getPathFromUrl(link.href) (router.js 46)
ClickPath(link) == getPathFromUrl(AnchorHref(link.val.href.val, DocUrl))

\* the origin of link.href
LinkOrigin(link) == UrlOrigin(ParseUrl(AnchorHref(link.val.href.val, DocUrl)))

Click(link) ==
    /\ alive
    /\ clickListeners > 0
    /\ IF Intercepts(link)
       THEN \E path \in {ClickPath(link)} :
              /\ navigate(path)
              /\ ev' = ClickEvent(path, TRUE, LinkOrigin(link))
       ELSE /\ UNCHANGED <<currentPath, loadVars>>
            /\ ev' = ClickEvent(<<>>, FALSE, <<>>)
    /\ UNCHANGED <<isInitialized, clickListeners, popListeners, docVars,
                   histVars, locationHref, alive, ui, pureVars>>

\* the popstate listener calling loadContent with history update enabled
PopState_UpdateHistory(delta) ==
    /\ alive
    /\ hIdx + delta \in 1..Len(hist)
    /\ hIdx' = hIdx + delta
    /\ hist' = hist
    /\ LET state == hist[hIdx'].state IN
       IF popListeners > 0 /\ state.has /\ state.val # <<>>
       THEN /\ loadContent(state.val, TRUE)
            /\ ev' = Event("popstate", state.val, TRUE)
       ELSE /\ UNCHANGED loadVars
            /\ ev' = Event("popstate", state.val, FALSE)
    /\ UNCHANGED <<routerVars, docVars, locationHref, alive, ui, pureVars>>

(***************************************************************************)
(* Back or Forward: the browser moves to the neighbouring session history  *)
(* entry of this document and fires popstate with that entry's state; the  *)
(* popstate listener (router.js 52-56) handles it.                         *)
(***************************************************************************)
PopState(delta) ==
    /\ alive
    /\ hIdx + delta \in 1..Len(hist)
    /\ hIdx' = hIdx + delta
    /\ hist' = hist
    /\ LET state == hist[hIdx'].state IN
       IF popListeners > 0 /\ state.has /\ state.val # <<>>
       THEN /\ loadContent(state.val, FALSE)
            /\ ev' = Event("popstate", state.val, TRUE)
       ELSE /\ UNCHANGED loadVars
            /\ ev' = Event("popstate", state.val, FALSE)
    /\ UNCHANGED <<routerVars, docVars, locationHref, alive, ui, pureVars>>

Back == PopState(-1)
Forward == PopState(1)


\* loadContent's catch block without the finally block: the loading class stays
CatchFinally_NoFinally(call) ==
    /\ locationHref' = Some(call.htmlFile)
    /\ loading' = loading
    /\ loads' = loads \ {call}
    /\ UNCHANGED nCalls

\* a finally block that removes the loading class only with the last call
CatchFinally_Reentrant(call) ==
    /\ locationHref' = Some(call.htmlFile)
    /\ loading' = (loads \ {call} # {})
    /\ loads' = loads \ {call}
    /\ UNCHANGED nCalls

\* loadContent's catch block falling back to the clean path, not the mapped file
CatchFinally_CleanPath(call) ==
    /\ locationHref' = Some(call.path)
    /\ loading' = FALSE
    /\ loads' = loads \ {call}
    /\ UNCHANGED nCalls

(***************************************************************************)
(* loadContent's catch and finally blocks (router.js 136-143)              *)
(***************************************************************************)
CatchFinally(call) ==
    /\ locationHref' = Some(call.htmlFile)
    /\ loading' = FALSE
    /\ loads' = loads \ {call}
    /\ UNCHANGED nCalls

(***************************************************************************)
(* The fetch of a suspended call settles (router.js 101-104). The promise  *)
(* rejects (network error), or resolves with a response: ok with the file  *)
(* the site has, not ok otherwise (404) or on a server error.              *)
(***************************************************************************)
FetchOutcomes(call) ==
    {"reject", "notok"} \cup (IF Server(call.htmlFile).has THEN {"ok"} ELSE {})

FetchSettles(call, outcome) ==
    /\ alive
    /\ call \in loads
    /\ call.at = "fetch"
    /\ outcome \in FetchOutcomes(call)
    /\ IF outcome = "ok"
       THEN /\ loads' = (loads \ {call}) \cup {[call EXCEPT !.at = "text"]}
            /\ ev' = Event("fetchOk", call.path, call.updateHistory)
            /\ UNCHANGED <<nCalls, loading, locationHref>>
       ELSE /\ CatchFinally(call)
            /\ ev' = Event("fetchFailed", call.path, call.updateHistory)
    /\ UNCHANGED <<routerVars, docVars, histVars, alive, ui, pureVars>>

(***************************************************************************)
(* window.history.pushState({path}, '', fullUrl) (router.js 128-131): the  *)
(* entries after the current one are dropped and the new one is current.   *)
(***************************************************************************)
pushState(path, fullUrl) ==
    /\ hist' = Append(SubSeq(hist, 1, hIdx), [state |-> Some(path), url |-> fullUrl])
    /\ hIdx' = hIdx + 1

\* loadContent without its history update
UpdateHistory_Never(call) == UNCHANGED histVars

\* the history update ignoring the updateHistory flag
UpdateHistory_Always(call) ==
    pushState(call.path, baseUrl \o call.path)

UpdateHistory(call) ==
    IF call.updateHistory
    THEN pushState(call.path, baseUrl \o call.path)
    ELSE UNCHANGED histVars

(***************************************************************************)
(* response.text() of a suspended call settles (router.js 106-143): it     *)
(* rejects, or resolves with the file's HTML and the rest of loadContent   *)
(* runs to its end without another await.                                  *)
(***************************************************************************)
TextSettles(call, rejected) ==
    /\ alive
    /\ call \in loads
    /\ call.at = "text"
    /\ IF rejected
       THEN /\ CatchFinally(call)
            /\ ev' = Event("textFailed", call.path, call.updateHistory)
            /\ UNCHANGED <<docVars, histVars>>
       ELSE LET html  == Server(call.htmlFile).val
                newContent == extractContent(html)
                newTitle == extractTitle(html)
            IN  /\ content' = IF content.has THEN Some(newContent) ELSE content
                /\ scrollY' = 0
                /\ title' = IF newTitle.has /\ newTitle.val # ""
                            THEN newTitle.val ELSE title
                /\ canonical' = updateCanonical(html, canonical)
                /\ ogUrl' = updateOgUrl(html, ogUrl)
                /\ UpdateHistory(call)
                /\ locationHref' = IF reinitializeScriptsThrows(ui)
                                   THEN Some(call.htmlFile) ELSE locationHref
                /\ loading' = FALSE
                /\ loads' = loads \ {call}
                /\ UNCHANGED nCalls
                /\ ev' = Event(IF reinitializeScriptsThrows(ui)
                               THEN "hookFailed" ELSE "loaded",
                               call.path, call.updateHistory)
    /\ UNCHANGED <<routerVars, alive, ui, pureVars>>

(***************************************************************************)
(* The navigation started by window.location.href = htmlFile (router.js    *)
(* 139) commits: the document is unloaded and its router is gone.          *)
(***************************************************************************)
Unload ==
    /\ alive
    /\ locationHref.has
    /\ alive' = FALSE
    /\ ev' = Event("unload", locationHref.val, FALSE)
    /\ UNCHANGED <<routerVars, loadVars, docVars, histVars, locationHref, ui,
                   pureVars>>

Next ==
    \/ InitCall
    \/ \E a \in Anchors : Click(Some(a))
    \/ Click(Null(NoAnchor))
    \/ Back
    \/ Forward
    \/ \E call \in loads : \E outcome \in {"reject", "notok", "ok"} :
          FetchSettles(call, outcome)
    \/ \E call \in loads : \E rejected \in BOOLEAN : TextSettles(call, rejected)
    \/ Unload

Spec == Init /\ [][Next]_vars


(***************************************************************************)
(* pathToHtmlFile as a function of any path string: a second               *)
(* specification draws the argument from the strings of at most MaxLen     *)
(* characters over PathChars, and from the paths of the specification's    *)
(* examples, and applies the function to it.                               *)
(***************************************************************************)
MaxLen == 3
PathChars == {"/", "a", "?", "#"}

StringsUpTo(n) == UNION {[1..k -> PathChars] : k \in 0..n}

DonateQueryPath == DonatePath \o <<"?", "r", "e", "f", "=", "x">>
GetInvolvedTeamPath == GetInvolvedPath \o <<"#", "t", "e", "a", "m">>

PathInputs ==
    StringsUpTo(MaxLen) \cup {DonatePath, DonateQueryPath, GetInvolvedTeamPath}

InitPath ==
    /\ arg \in PathInputs
    /\ out = <<>>
    /\ ev = Event("input", arg, FALSE)
    /\ hist = <<[state |-> NoUrl, url |-> Origin \o RootPath]>>
    /\ hIdx = 1
    /\ currentPath = RootPath
    /\ isInitialized = FALSE
    /\ clickListeners = 0
    /\ popListeners = 0
    /\ loads = {}
    /\ nCalls = 0
    /\ loading = FALSE
    /\ content = NoStr
    /\ title = ""
    /\ canonical = NoUrl
    /\ ogUrl = NoUrl
    /\ scrollY = 0
    /\ locationHref = NoUrl
    /\ alive = FALSE
    /\ ui \in {u \in UiEnvs : ~u.jq}

ApplyPathToHtmlFile ==
    /\ ev.op = "input"
    /\ out' = pathToHtmlFile(arg)
    /\ ev' = Event("pathToHtmlFile", arg, TRUE)
    /\ UNCHANGED <<routerVars, loadVars, docVars, histVars, locationHref,
                   alive, ui, arg>>

NextPath == ApplyPathToHtmlFile

SpecPath == InitPath /\ [][NextPath]_vars


(***************************************************************************)
(* Startup on any page: a third specification starts the router on each of *)
(* the paths below with each of the titles below, in a page without the UI *)
(* library, and runs init and the load it may start; no link is clicked.   *)
(***************************************************************************)
AboutPath == <<"/", "a", "b", "o", "u", "t">>
NotFoundTitle == "Page not found"

StartupPaths ==
    { RootPath, DonatePath, MissionPath, GetInvolvedPath, AboutPath,
      DonatePath \o HtmlExt, <<"/">> \o IndexHtml }

StartupTitles ==
    { RootTitle, DonateTitle, MissionTitle, GetInvolvedTitle, DefaultTitle,
      NotFoundTitle }

InitStartup ==
    \E path \in StartupPaths, t \in StartupTitles :
        /\ hist = <<[state |-> NoUrl, url |-> Origin \o path]>>
        /\ hIdx = 1
        /\ currentPath = path
        /\ isInitialized = FALSE
        /\ clickListeners = 0
        /\ popListeners = 0
        /\ loads = {}
        /\ nCalls = 0
        /\ loading = FALSE
        /\ content = Some("served")
        /\ title = t
        /\ canonical = NoUrl
        /\ ogUrl = NoUrl
        /\ scrollY = 1
        /\ locationHref = NoUrl
        /\ alive = TRUE
        /\ ui \in {u \in UiEnvs : ~u.jq}
        /\ ev = Event("construct", path, FALSE)
        /\ arg = <<>>
        /\ out = <<>>

NextStartup ==
    \/ InitCall
    \/ \E call \in loads : \E outcome \in {"reject", "notok", "ok"} :
          FetchSettles(call, outcome)
    \/ \E call \in loads : \E rejected \in BOOLEAN : TextSettles(call, rejected)
    \/ Unload

SpecStartup == InitStartup /\ [][NextStartup]_vars


(***************************************************************************)
(* Link clicks only: the specification without Back and Forward.           *)
(***************************************************************************)
NextClicks ==
    \/ InitCall
    \/ \E a \in Anchors : Click(Some(a))
    \/ Click(Null(NoAnchor))
    \/ \E call \in loads : \E outcome \in {"reject", "notok", "ok"} :
          FetchSettles(call, outcome)
    \/ \E call \in loads : \E rejected \in BOOLEAN : TextSettles(call, rejected)
    \/ Unload

SpecClicks == Init /\ [][NextClicks]_vars


(***************************************************************************)
(* Claims                                                                  *)
(***************************************************************************)

\* The reference mapping of C7, stated on its own: strip one leading slash;
\* an empty remainder gives 'index.html'; otherwise keep what precedes the
\* first '?' or '#' and append '.html'.
RefRemainder(path) ==
    IF path # <<>> /\ path[1] = "/" THEN [i \in 1..(Len(path) - 1) |-> path[i + 1]]
    ELSE path

RefSlug(rest) ==
    LET n == CHOOSE k \in 0..Len(rest) :
                 /\ \A i \in 1..k : rest[i] \notin {"?", "#"}
                 /\ k < Len(rest) => rest[k + 1] \in {"?", "#"}
    IN  [i \in 1..n |-> rest[i]]

RefFile(path) ==
    IF RefRemainder(path) = <<>> THEN IndexHtml
    ELSE RefSlug(RefRemainder(path)) \o HtmlExt

RefFileAmended(path) ==
    IF RefRemainder(path) \in {<<>>, <<"/">>} THEN IndexHtml
    ELSE RefSlug(RefRemainder(path)) \o HtmlExt

EndsWithHtmlExt(s) ==
    Len(s) >= Len(HtmlExt) /\ SubSeq(s, Len(s) - Len(HtmlExt) + 1, Len(s)) = HtmlExt

\* C7 as stated: for every path string pathToHtmlFile equals the reference
\* mapping, and the result is 'index.html' or '<slug>.html' with a non-empty
\* slug. Violated: '//' maps to 'index.html', and '/?a' maps to '.html'.
C7_AsStated ==
    ev.op = "pathToHtmlFile" =>
        /\ out = RefFile(arg)
        /\ out = IndexHtml \/ (EndsWithHtmlExt(out) /\ Len(out) > Len(HtmlExt))

\* C7 amended: for every path string pathToHtmlFile equals the reference
\* mapping in which a remainder that is empty or is exactly '/' gives
\* 'index.html'; the examples of the specification map as listed; the result
\* is 'index.html' or '<slug>.html', where the slug is empty exactly when
\* the remainder starts with '?' or '#'.
C7_PathMapping ==
    ev.op = "pathToHtmlFile" =>
        /\ out = RefFileAmended(arg)
        /\ arg \in {<<>>, RootPath} => out = IndexHtml
        /\ arg \in {DonatePath, DonateQueryPath} => out = Slice1(DonatePath) \o HtmlExt
        /\ arg = GetInvolvedTeamPath => out = Slice1(GetInvolvedPath) \o HtmlExt
        /\ out = IndexHtml \/ EndsWithHtmlExt(out)
        /\ out = HtmlExt <=> (RefRemainder(arg) # <<>> /\ RefRemainder(arg)[1] \in {"?", "#"})

\* C7 witness: the function has been applied to '/a?' (query dropped) and
\* the result is 'a.html'
C7_Witness ==
    /\ ev.op = "pathToHtmlFile"
    /\ arg = <<"/", "a", "?">>
    /\ out = <<"a">> \o HtmlExt


\* A step in which a suspended call finishes through the catch block because
\* its fetch rejected or its response was not ok.
FetchFailureOf(call) ==
    /\ call \in loads
    /\ call.at = "fetch"
    /\ ev'.op = "fetchFailed"
    /\ call \notin loads'

\* C1: when a call's fetch rejects or resolves with a non-success status,
\* the call has issued exactly one fetch and issues no other (the call is
\* gone, no call is added), window.location.href is the file mapped from the
\* call's path, the loading class is absent, and the content, the title, the
\* canonical link, the og:url meta and the history are as before the step.
C1_FetchFailure ==
    [][\A call \in loads :
          FetchFailureOf(call) =>
            /\ call.fetches = 1
            /\ loads' = loads \ {call}
            /\ nCalls' = nCalls
            /\ locationHref' = Some(RefFileAmended(call.path))
            /\ ~loading'
            /\ UNCHANGED <<content, title, canonical, ogUrl, hist, hIdx>>]_vars

\* C1 witness: the fetch for '/donate.html' (file 'donate.html.html', which
\* the site does not have) has failed and the fallback location is that file
C1_Witness ==
    /\ ev.op = "fetchFailed"
    /\ ev.path = DonatePath \o HtmlExt
    /\ locationHref = Some(Slice1(DonatePath) \o HtmlExt \o HtmlExt)
    /\ ~loading
    /\ Len(hist) = 1

\* C2: a click whose path is the recorded current path changes nothing: no
\* call is started (no fetch), no history entry is pushed, and the current
\* path, the content, the title and the loading class stay as they are.
C2_NavigateSamePath ==
    [][(ev'.op = "click" /\ ev'.flag /\ ev'.path = currentPath) =>
          UNCHANGED <<currentPath, isInitialized, loads, nCalls, loading,
                      content, title, canonical, ogUrl, scrollY, hist, hIdx,
                      locationHref>>]_vars

\* C2 witness: an internal link to the current path has been clicked and
\* intercepted, and no call has ever been started
C2_Witness ==
    /\ ev.op = "click"
    /\ ev.flag
    /\ ev.path = currentPath
    /\ nCalls = 0
    /\ loads = {}
    /\ ~loading
    /\ Len(hist) = 1


\* A step in which the suspended call finishes, reported as op.
Finishes(call, ops) ==
    /\ call \in loads
    /\ call \notin loads'
    /\ ev'.op \in ops
    /\ \A c \in loads' : c.id # call.id

\* the step pushes exactly one entry, for path, after the current entry
PushesEntryFor(path) ==
    /\ Len(hist') = hIdx + 1
    /\ hIdx' = hIdx + 1
    /\ \A i \in 1..hIdx : hist'[i] = hist[i]
    /\ hist'[hIdx'].state = Some(path)
    /\ hist'[hIdx'].url = Origin \o path

\* what C3 says of one step, where failures are the outcomes listed
HistoryDiscipline(failures) ==
    /\ \A call \in loads :
          /\ (Finishes(call, {"loaded"}) /\ call.updateHistory) => PushesEntryFor(call.path)
          /\ (Finishes(call, {"loaded"}) /\ ~call.updateHistory) => UNCHANGED <<hist, hIdx>>
          /\ Finishes(call, failures) => UNCHANGED <<hist, hIdx>>
    \* a call updates history exactly when a click to another path started it
    /\ \A call \in loads' \ loads :
          call.at = "fetch" =>
             /\ call.updateHistory <=> (ev'.op = "click" /\ call.path # currentPath)
             /\ call.path = ev'.path
    \* a click to another path starts one call, and no step but the end of a
    \* call changes the entries
    /\ (ev'.op = "click" /\ ev'.flag /\ ev'.path # currentPath) =>
          \E call \in loads' \ loads : call.path = ev'.path /\ call.updateHistory
    /\ ev'.op \notin {"loaded", "hookFailed"} => hist' = hist
    /\ ev'.op \notin {"loaded", "hookFailed", "popstate"} => hIdx' = hIdx

\* C3 as stated: a successful load of a navigation pushes exactly one entry
\* {path} at base URL + path, a load with history update disabled pushes
\* none, and a load that fails pushes none. Violated: a load whose
\* re-initialization hook throws takes the failure path after its pushState.
C3_AsStated ==
    [][HistoryDiscipline({"fetchFailed", "textFailed", "hookFailed"})]_vars

\* C3 amended: as stated, where the loads that never push are those that
\* fail before the content swap (fetch rejected, response not ok, body read
\* rejected); a load whose re-initialization hook throws has pushed its
\* entry, if history update was enabled, before it takes the failure path.
C3_HistoryPushes ==
    [][/\ HistoryDiscipline({"fetchFailed", "textFailed"})
       /\ \A call \in loads :
             Finishes(call, {"hookFailed"}) =>
                IF call.updateHistory THEN PushesEntryFor(call.path)
                ELSE UNCHANGED <<hist, hIdx>>]_vars

\* C3 witness: the load of a click on '/donate' has succeeded and its entry
\* is the second and current one
C3_Witness ==
    /\ ev = Event("loaded", DonatePath, TRUE)
    /\ Len(hist) = 2
    /\ hIdx = 2
    /\ hist[2] = [state |-> Some(DonatePath), url |-> Origin \o DonatePath]
    /\ ~locationHref.has


\* C4: no call in flight implies no loading class, in the first state and
\* after every step; and every step in which a call finishes, through the
\* catch block or not, leaves the loading class absent.
C4_LoadingCleanup ==
    /\ (loads = {} => ~loading)
    /\ [][/\ loads' = {} => ~loading'
          /\ \A call \in loads :
                Finishes(call, {"fetchFailed", "textFailed", "hookFailed", "loaded"})
                   => ~loading']_vars

\* C4 witness: a load has succeeded, no call is in flight and the class is
\* absent
C4_Witness ==
    /\ ev.op = "loaded"
    /\ nCalls > 0
    /\ loads = {}
    /\ ~loading


\* the URL an anchor's href resolves to in the current document
ResolvedUrl(a) == ParseUrl(AnchorHref(a.href.val, DocUrl))

\* the anchor's href resolves to a URL of another origin
DifferentOrigin(a) ==
    /\ a.href.has
    /\ ResolvedUrl(a).ok
    /\ UrlOrigin(ResolvedUrl(a)) # Origin

\* the step leaves the router and everything it writes as it was
RouterUntouched ==
    UNCHANGED <<currentPath, isInitialized, loads, nCalls, loading, content,
                title, canonical, ogUrl, scrollY, hist, hIdx, locationHref>>

\* C5: a click on an anchor whose href resolves to an origin other than the
\* document's is never intercepted: default is not prevented and no
\* navigate or loadContent runs. Violated by the code: 'https://o/?https://s'
\* and '//o/donate' are intercepted.
C5_AsStated ==
    [][\A a \in Anchors :
          (Click(Some(a)) /\ DifferentOrigin(a)) => (~ev'.flag /\ RouterUntouched)]_vars

\* the interception rule of C6: an href (not empty), not starting with '#',
\* 'mailto:' or 'tel:', a target other than '_blank', and not an absolute
\* URL of another origin
InterceptionRule(a) ==
    /\ a.href.has
    /\ a.href.val # <<>>
    /\ a.href.val[1] # "#"
    /\ ~(\E n \in 1..Len(a.href.val) : SubSeq(a.href.val, 1, n) \in {Mailto, Tel})
    /\ a.target # Some("_blank")
    /\ ~(SchemeEnd(a.href.val) # 0 /\ DifferentOrigin(a))

\* C6: a click is intercepted (default prevented, navigate called with the
\* path component of the href) if and only if the interception rule holds of
\* the nearest anchor; any other click prevents no default and changes no
\* router state. Violated by the code: the absolute URL
\* 'https://o/?https://s' of another origin is intercepted (see C5).
C6_AsStated ==
    [][/\ \A a \in Anchors :
             Click(Some(a)) =>
                IF InterceptionRule(a)
                THEN ev'.flag /\ ev'.path = ResolvedUrl(a).pathname
                ELSE ~ev'.flag /\ RouterUntouched
       /\ Click(Null(NoAnchor)) => (~ev'.flag /\ RouterUntouched)]_vars


\* A step in which the suspended call's response body arrives and the rest
\* of loadContent runs: the content swap, the title, the metadata, the
\* history update and the re-initialization hooks.
Succeeds(call) ==
    /\ call.at = "text"
    /\ Finishes(call, {"loaded", "hookFailed"})

\* the document the call fetched
FetchedDoc(call) == Server(call.htmlFile).val

HtmlExtAt(v, i) ==
    /\ i + Len(HtmlExt) - 1 <= Len(v)
    /\ \A k \in 1..Len(HtmlExt) : v[i + k - 1] = HtmlExt[k]

\* r is v with its first occurrence of '.html' removed; v itself if there is none
StrippedOfHtmlExt(v, r) ==
    IF \E i \in 1..Len(v) : HtmlExtAt(v, i)
    THEN \E i \in 1..Len(v) :
            /\ HtmlExtAt(v, i)
            /\ \A j \in 1..(i - 1) : ~HtmlExtAt(v, j)
            /\ r = [k \in 1..(Len(v) - Len(HtmlExt)) |->
                      IF k < i THEN v[k] ELSE v[k + Len(HtmlExt)]]
    ELSE r = v

\* what C9 says of a live value and the fetched one
MetaRewritten(old, new, fetched) ==
    IF fetched.has /\ old.has
    THEN new.has /\ StrippedOfHtmlExt(fetched.val, new.val)
    ELSE new = old

\* C9: when a call succeeds, the live canonical href and the live og:url
\* content are each the fetched document's value with '.html' (its first
\* occurrence) removed if the fetched and the live element both exist, and
\* unchanged otherwise; 'https://s/donate.html' becomes 'https://s/donate'.
C9_MetadataRewrite ==
    [][\A call \in loads :
          Succeeds(call) =>
            /\ MetaRewritten(canonical, canonical', FetchedDoc(call).canonical)
            /\ MetaRewritten(ogUrl, ogUrl', FetchedDoc(call).og)
            /\ (canonical.has /\ FetchedDoc(call).canonical
                                   = Some(Origin \o DonatePath \o HtmlExt))
                  => canonical' = Some(Origin \o DonatePath)]_vars

\* C9 witness: the load of '/donate' has succeeded and the live canonical
\* href and og:url are 'https://s/donate'
C9_Witness ==
    /\ ev.op = "loaded"
    /\ ev.path = DonatePath
    /\ canonical = Some(Origin \o DonatePath)
    /\ ogUrl = Some(Origin \o DonatePath)

\* the clean path of the first history entry, the page the visit started on
StartPath == ParseUrl(hist[1].url).pathname

\* C10: after a successful click navigation away from the start page P0 and
\* a Back to P0's entry, the content displayed becomes P0's again. Stated
\* on the states in which Back has led to P0's entry and nothing is in
\* flight, so that nothing is left to change the content. Violated by the
\* code: P0's entry has no state, the popstate listener starts no load.
C10_BackRestoresContent ==
    ( /\ alive
      /\ ev.op = "popstate"
      /\ hIdx = 1
      /\ Len(hist) > 1
      /\ loads = {}
      /\ ~locationHref.has
      /\ content.has
      /\ Server(pathToHtmlFile(StartPath)).has )
    => content = Some(extractContent(Server(pathToHtmlFile(StartPath)).val))


\* the state of the entry a popstate step has moved to: the event's state
DeliveredState == hist[hIdx'].state

\* C11: on every popstate event, if the state of the entry moved to carries
\* a path, exactly one loadContent call is started, for that path and with
\* history update disabled, and the handler leaves the history entries as
\* they are; otherwise no call is started and nothing the router owns or
\* writes changes. The state of every entry the router pushed carries the
\* clean path of that entry's URL, and a call started with history update
\* disabled finishes without touching the history.
C11_PopState ==
    [][/\ ev'.op = "popstate" =>
            /\ hist' = hist
            /\ UNCHANGED <<currentPath, isInitialized, content, title,
                           canonical, ogUrl, scrollY, locationHref>>
            /\ IF DeliveredState.has /\ DeliveredState.val # <<>>
               THEN /\ \E call \in loads' \ loads :
                          /\ call.path = DeliveredState.val
                          /\ ~call.updateHistory
                          /\ call.at = "fetch"
                          /\ loads' = loads \cup {call}
                    /\ nCalls' = nCalls + 1
                    /\ hist[hIdx'].url = Origin \o DeliveredState.val
               ELSE UNCHANGED <<loads, nCalls, loading>>
       /\ \A i \in 2..Len(hist') :
             /\ hist'[i].state.has
             /\ hist'[i].url = Origin \o hist'[i].state.val
       /\ \A call \in loads :
             (~call.updateHistory /\ call \notin loads') => UNCHANGED <<hist, hIdx>>]_vars

\* C11 witness: Forward has moved to the entry pushed for '/donate' and the
\* listener has started a load of '/donate' with history update disabled
C11_Witness ==
    /\ ev = Event("popstate", DonatePath, TRUE)
    /\ hIdx = 2
    /\ hist[2].state = Some(DonatePath)
    /\ \E call \in loads :
          call.path = DonatePath /\ ~call.updateHistory /\ call.at = "fetch"


\* the content the site serves for a clean path, as the router extracts it
ContentOf(path) == extractContent(Server(pathToHtmlFile(path)).val)

\* C12: in every state of an initialised router with no load in flight and
\* no failed load, the recorded current path is the path in the address bar
\* and the path whose content the container holds. Violated by the code:
\* the popstate listener never assigns currentPath.
C12_CurrentPathDisplayed ==
    ( /\ alive
      /\ isInitialized
      /\ loads = {}
      /\ ~locationHref.has )
    => /\ currentPath = getCurrentPath
       /\ (content.has /\ Server(pathToHtmlFile(currentPath)).has)
             => content = Some(ContentOf(currentPath))


\* C13: loads are neither coordinated nor cancelled. A click or a
\* Back/Forward leaves every call in flight as it is, and the end of one
\* call leaves the others in flight. Whenever the load of a navigation
\* succeeds, whatever else is in flight and whichever click came first, the
\* container holds that load's content, the title is that load's document's
\* title (if it has one) and the address bar shows that load's path: the
\* load that resolves last decides the final state.
C13_LastResolvedWins ==
    [][/\ ev'.op \in {"click", "popstate", "init"} => loads \subseteq loads'
       /\ \A call \in loads :
             Finishes(call, {"loaded", "hookFailed", "fetchFailed", "textFailed"})
                => loads' = loads \ {call}
       /\ \A call \in loads :
             (Finishes(call, {"loaded"}) /\ call.updateHistory) =>
                /\ content.has => content' = Some(ContentOf(call.path))
                /\ FetchedDoc(call).title.has => title' = FetchedDoc(call).title.val
                /\ hist'[hIdx'].url = Origin \o call.path]_vars

\* C13 witness: '/donate' was clicked first and '/mission' second, the load
\* of '/mission' resolved first and the load of '/donate' last: the content,
\* the title and the address bar are those of '/donate'
C13_Witness ==
    /\ ev = Event("loaded", DonatePath, TRUE)
    /\ loads = {}
    /\ currentPath = MissionPath
    /\ Len(hist) = 3
    /\ hist[2].state = Some(MissionPath)
    /\ hist[3].state = Some(DonatePath)
    /\ hIdx = 3
    /\ content = Some("donate")
    /\ title = DonateTitle


\* C14: the loading class is one shared flag, not a count of the loads in
\* flight: a step that starts a call sets it, a step in which a call
\* finishes clears it whatever else is in flight, and no other step touches
\* it. So a state with a call in flight and the class absent is reachable
\* (C14_Witness): 'class present whenever a load is in flight' is no
\* invariant.
C14_SharedLoadingFlag ==
    [][/\ nCalls' > nCalls => loading'
       /\ \A call \in loads :
             Finishes(call, {"loaded", "hookFailed", "fetchFailed", "textFailed"})
                => ~loading'
       /\ (nCalls' = nCalls /\ loads' \subseteq loads /\ loads \subseteq loads')
             => loading' = loading
       /\ (nCalls' = nCalls /\ loads' # loads /\ Cardinality(loads') = Cardinality(loads))
             => loading' = loading]_vars

\* C14 witness: of two overlapping loads one has succeeded and removed the
\* loading class while the other is still in flight
C14_Witness ==
    /\ alive
    /\ ev.op = "loaded"
    /\ ~locationHref.has
    /\ loads # {}
    /\ ~loading


\* the expected title of C15: the table entry of the four listed paths,
\* 'GIFT Canada' for any other path
ExpectedTitleOf(path) ==
    IF path = <<"/">>
    THEN "GIFT Canada - Registered Canadian Charity | Toronto Non-Profit Organization"
    ELSE IF path = <<"/", "d", "o", "n", "a", "t", "e">>
    THEN "Donate to GIFT Canada - Support Humanitarian Aid & Medical Missions"
    ELSE IF path = <<"/", "m", "i", "s", "s", "i", "o", "n">>
    THEN "GIFT Canada - GIFT Vision & Mission"
    ELSE IF path = <<"/", "g", "e", "t", "-", "i", "n", "v", "o", "l", "v", "e", "d">>
    THEN "GIFT Canada - Get Involved"
    ELSE "GIFT Canada"

\* the reconciliation rule of C15 for the page at path whose title is t
ReconciliationRule(path, t) ==
    /\ path # <<"/">>
    /\ ~(\E i \in 1..Len(path) : HtmlExtAt(path, i))
    /\ ~(\E i \in 1..Len(path) : path[i] = "#")
    /\ t # ExpectedTitleOf(path)

\* C15: the first init binds the click and the popstate listener and, in
\* the same step, starts a load for the current path if and only if the
\* reconciliation rule holds of the path and the document title, with
\* history update disabled; a later init starts nothing. No step of init
\* changes the recorded current path or the history, and a load with
\* history update disabled finishes without pushing an entry and without
\* changing the current path.
C15_InitialLoad ==
    [][/\ (ev'.op = "init" /\ ev'.flag) =>
            /\ ~isInitialized
            /\ clickListeners' = 1
            /\ popListeners' = 1
            /\ IF ReconciliationRule(ParseUrl(hist[hIdx].url).pathname, title)
               THEN /\ nCalls' = nCalls + 1
                    /\ \E call \in loads' :
                          /\ loads' = loads \cup {call}
                          /\ call \notin loads
                          /\ call.path = ParseUrl(hist[hIdx].url).pathname
                          /\ ~call.updateHistory
               ELSE UNCHANGED <<loads, nCalls, loading>>
       /\ (ev'.op = "init" /\ ~ev'.flag) =>
            (isInitialized /\ UNCHANGED <<loads, nCalls, loading>>)
       /\ ev'.op = "init" => UNCHANGED <<currentPath, hist, hIdx>>
       /\ \A call \in loads :
             (~call.updateHistory /\ call \notin loads')
                => UNCHANGED <<currentPath, hist, hIdx>>]_vars

\* C15 witness: the router started on '/about', a path outside the table,
\* in a document titled 'Page not found', and init has started the load of
\* '/about' with history update disabled
C15_Witness ==
    /\ ev = Event("init", AboutPath, TRUE)
    /\ title = NotFoundTitle
    /\ currentPath = AboutPath
    /\ Len(hist) = 1
    /\ \E call \in loads :
          call.path = AboutPath /\ ~call.updateHistory /\ call.at = "fetch"


C17_HookFailure ==
    [][\A call \in loads :
          (Succeeds(call) \/ (call.at = "text" /\ Finishes(call, {"textFailed"}))) =>
            /\ (~ui.jq \/ (ui.browser /\ ui.dropotron)) =>
                  (ev'.op \in {"loaded", "textFailed"}
                     /\ (ev'.op = "loaded" => locationHref' = locationHref))
            /\ ev'.op = "hookFailed" =>
                  /\ ui.jq
                  /\ locationHref' = Some(RefFileAmended(call.path))
                  /\ content.has => content' = Some(ContentOf(call.path))
                  /\ FetchedDoc(call).title.has => title' = FetchedDoc(call).title.val
                  /\ IF call.updateHistory THEN PushesEntryFor(call.path)
                     ELSE UNCHANGED <<hist, hIdx>>
                  /\ ~loading'
                  /\ loads' = loads \ {call}]_vars

\* C17 witness: the load of a click on '/donate' has swapped the content,
\* set the title and pushed its entry, then a hook threw: the location is
\* 'donate.html' and the loading class is absent
C17_Witness ==
    /\ ev = Event("hookFailed", DonatePath, TRUE)
    /\ content = Some("donate")
    /\ title = DonateTitle
    /\ hist[hIdx] = [state |-> Some(DonatePath), url |-> Origin \o DonatePath]
    /\ locationHref = Some(Slice1(DonatePath) \o HtmlExt)
    /\ ~loading

\* C18: the initialization flag is false exactly until the first init has
\* run and no step resets it; the router has bound no listener before that
\* and exactly one click listener and one popstate listener after it; an
\* init of an initialised router binds nothing, starts no load and changes
\* nothing else.
C18_InitOnce ==
    /\ IF isInitialized
       THEN clickListeners = 1 /\ popListeners = 1
       ELSE clickListeners = 0 /\ popListeners = 0 /\ nCalls = 0
    /\ [][/\ isInitialized => isInitialized'
          /\ ev'.op = "init" => isInitialized'
          /\ (ev'.op = "init" /\ isInitialized) =>
                UNCHANGED <<currentPath, isInitialized, clickListeners,
                            popListeners, loads, nCalls, loading, content,
                            title, canonical, ogUrl, scrollY, hist, hIdx,
                            locationHref, alive>>
          /\ ev'.op # "init" =>
                UNCHANGED <<isInitialized, clickListeners, popListeners>>]_vars

\* C18 witness: on '/mission', served as a 'Page not found' document, init
\* has been called again while the load the first init started is still in
\* flight: the flag is set, one listener of each kind is bound, and the one
\* load is the only one
C18_Witness ==
    /\ ev = Event("init", MissionPath, FALSE)
    /\ isInitialized
    /\ clickListeners = 1
    /\ popListeners = 1
    /\ title = NotFoundTitle
    /\ nCalls = 1
    /\ Cardinality(loads) = 1

=============================================================================
